---- MODULE Spec2Model ----
(***************************************************************************)
(* Newman-Ziff bond percolation (cncp/newmanziff.py) and residual bond     *)
(* percolation (cncp/extendednewmanziff.py).                               *)
(*                                                                         *)
(* Probabilities are held in hundredths (0.34 is 34), so the float         *)
(* comparison (i + 1) / M >= p is the integer comparison                   *)
(* (i + 1) * 100 >= p * M.  For hundredths and the small M used here the   *)
(* two agree: IEEE division is correctly rounded, so the quotient equals   *)
(* the literal exactly when the rationals are equal.                       *)
(***************************************************************************)
EXTENDS Integers, Sequences, FiniteSets, TLC

\* ------------------------------------------------------------------ bounds
MaxNodes == 4
MaxEdges == 3
MaxDepth == 2

\* the values sample probabilities are drawn from, in hundredths
SampleValues == {0, 34, 67, 100}

\* Python's None as the result of rootOf / occupy
NoNode == -1

VARIABLES
    driver,        \* "basic" (BondPercolation) or "residual" (ResidualBondPercolation)
    order,         \* self.network().order()
    edges,         \* the edges of the network, g.edges()
    smpl,          \* self._samples
    residuals,     \* self._residuals
    components,    \* self._components
    networks,      \* self._networks
    gcc,           \* self._gcc
    parent,        \* self._parent
    networkIndex,  \* self._networkIndex
    phis,          \* self._phis, keyed by depth
    stack,         \* the active calls of percolate, outermost first
    status,        \* "ready", "running", "done" or "error"
    result         \* what the outermost percolate returned

vars == <<driver, order, edges, smpl, residuals, components, networks, gcc,
          parent, networkIndex, phis, stack, status, result>>

Nodes(n) == 0 .. (n - 1)

Max(a, b) == IF a >= b THEN a ELSE b

\* sorted(numpy.unique(list(samples)))
RECURSIVE SortedSeq(_)
SortedSeq(S) ==
    IF S = {} THEN <<>>
    ELSE LET m == CHOOSE x \in S : \A y \in S : x <= y
         IN  <<m>> \o SortedSeq(S \ {m})

\* es[i:] with the index of the edge just occupied, not the one after it
Suffix_FromOccupied(es, nexti) ==
    IF nexti = 0 THEN es ELSE SubSeq(es, nexti, Len(es))

\* es[nexti:]
Suffix(es, nexti) == SubSeq(es, nexti + 1, Len(es))

\* (i + 1) / M >= p, with p in hundredths
AtOrPast(i, M, p) == (i + 1) * 100 >= p * M

\* the edge sets of the networks on n nodes: simple, undirected, each edge
\* reported by g.edges() once, as (u, v) with u before v in the node order
EdgeSets(n) ==
    { E \in SUBSET { e \in Nodes(n) \X Nodes(n) : e[1] < e[2] } :
        Cardinality(E) <= MaxEdges }

\* numpy.random.shuffle(es): every ordering of list(g.edges())
Shuffles(E) ==
    { s \in [1 .. Cardinality(E) -> E] :
        \A a, b \in 1 .. Cardinality(E) : a # b => s[a] # s[b] }

\* ------------------------------------------------- BondPercolation tracker

\* rootOf that repoints a visited slot at its parent's old parent, not at the
\* root it found
RECURSIVE rootOf_Grandparent(_, _)
rootOf_Grandparent(c, n) ==
    LET np == c[n] IN
    IF np < 0 THEN [r |-> n, c |-> c]
    ELSE LET sub == rootOf_Grandparent(c, np)
         IN  [r |-> sub.r,
              c |-> [sub.c EXCEPT ![n] = IF c[np] < 0 THEN np ELSE c[np]]]

\* BondPercolation.rootOf: the root and the array after path compression
RECURSIVE rootOf(_, _)
rootOf(c, n) ==
    LET np == c[n] IN
    IF np < 0 THEN [r |-> n, c |-> c]
    ELSE LET sub == rootOf(c, np)
         IN  [r |-> sub.r, c |-> [sub.c EXCEPT ![n] = sub.r]]

\* join with the GCC updated before the size of the first component is
join_GccBeforeSize(c, g, c1, c2) ==
    LET msize == c[c2]
        ca    == [c EXCEPT ![c2] = c1]
        cb    == [ca EXCEPT ![c1] = ca[c1] + msize]
    IN  [c |-> cb, gcc |-> Max(g, -ca[c1]), ret |-> -cb[c1]]

\* join that overwrites the size of the first component with the second's
\* instead of adding to it
join_SizeOverwritten(c, g, c1, c2) ==
    LET msize == c[c2]
        ca    == [c EXCEPT ![c2] = c1]
        cb    == [ca EXCEPT ![c1] = msize]
    IN  [c |-> cb, gcc |-> Max(g, -cb[c1]), ret |-> -cb[c1]]

\* BondPercolation.join
join(c, g, c1, c2) ==
    LET msize == c[c2]
        ca    == [c EXCEPT ![c2] = c1]
        cb    == [ca EXCEPT ![c1] = ca[c1] + msize]
    IN  [c |-> cb, gcc |-> Max(g, -cb[c1]), ret |-> -cb[c1]]

\* BondPercolation.occupy
occupy(c, g, n, m) ==
    LET a == rootOf(c, n)
        b == rootOf(a.c, m)
    IN  IF b.r # a.r THEN join(b.c, g, a.r, b.r)
        ELSE [c |-> b.c, gcc |-> g, ret |-> NoNode]

\* BondPercolation.sample
sample(p, g) == [p |-> p, gcc |-> g]

\* ------------------------------------------ ResidualBondPercolation tracker

\* rootOf with the availability test made against the base network, not
\* against the parent network
RECURSIVE rootOfR_BaseBoundary(_, _, _, _, _)
rootOfR_BaseBoundary(c, nw, n, network, par) ==
    LET np == c[n]
        nn == nw[n]
    IN  IF np = -1 THEN
            [r |-> n, c |-> c, nw |-> [nw EXCEPT ![n] = network], err |-> FALSE]
        ELSE IF nn = network THEN
            IF np < 0 THEN [r |-> n, c |-> c, nw |-> nw, err |-> FALSE]
            ELSE LET sub == rootOfR_BaseBoundary(c, nw, np, network, par)
                 IN  IF sub.err \/ sub.r = NoNode
                     THEN [r |-> NoNode, c |-> sub.c, nw |-> sub.nw, err |-> TRUE]
                     ELSE [r |-> sub.r, c |-> [sub.c EXCEPT ![n] = sub.r],
                           nw |-> sub.nw, err |-> FALSE]
        ELSE IF nn > 0 THEN
            [r |-> n, c |-> [c EXCEPT ![n] = -1],
             nw |-> [nw EXCEPT ![n] = network], err |-> FALSE]
        ELSE [r |-> NoNode, c |-> c, nw |-> nw, err |-> FALSE]

\* rootOf that moves a slot of another available network into this one
\* without resetting its record to a singleton; stale pointers can then form
\* a cycle, which ends the recursion with an error after fuel steps
RECURSIVE rootOfR_NoResetFuel(_, _, _, _, _, _)
rootOfR_NoResetFuel(c, nw, n, network, par, fuel) ==
    LET np == c[n]
        nn == nw[n]
    IN  IF np = -1 THEN
            [r |-> n, c |-> c, nw |-> [nw EXCEPT ![n] = network], err |-> FALSE]
        ELSE IF nn = network THEN
            IF np < 0 THEN [r |-> n, c |-> c, nw |-> nw, err |-> FALSE]
            ELSE IF fuel = 0 THEN [r |-> NoNode, c |-> c, nw |-> nw, err |-> TRUE]
            ELSE LET sub == rootOfR_NoResetFuel(c, nw, np, network, par, fuel - 1)
                 IN  IF sub.err \/ sub.r = NoNode
                     THEN [r |-> NoNode, c |-> sub.c, nw |-> sub.nw, err |-> TRUE]
                     ELSE [r |-> sub.r, c |-> [sub.c EXCEPT ![n] = sub.r],
                           nw |-> sub.nw, err |-> FALSE]
        ELSE IF nn > par THEN
            [r |-> n, c |-> c, nw |-> [nw EXCEPT ![n] = network], err |-> FALSE]
        ELSE [r |-> NoNode, c |-> c, nw |-> nw, err |-> FALSE]

rootOfR_NoReset(c, nw, n, network, par) ==
    rootOfR_NoResetFuel(c, nw, n, network, par, MaxNodes)

\* ResidualBondPercolation.rootOf.  err is set when the recursive call
\* returns None and the assignment of None into the int32 array raises.
RECURSIVE rootOfR(_, _, _, _, _)
rootOfR(c, nw, n, network, par) ==
    LET np == c[n]
        nn == nw[n]
    IN  IF np = -1 THEN
            [r |-> n, c |-> c, nw |-> [nw EXCEPT ![n] = network], err |-> FALSE]
        ELSE IF nn = network THEN
            IF np < 0 THEN [r |-> n, c |-> c, nw |-> nw, err |-> FALSE]
            ELSE LET sub == rootOfR(c, nw, np, network, par)
                 IN  IF sub.err \/ sub.r = NoNode
                     THEN [r |-> NoNode, c |-> sub.c, nw |-> sub.nw, err |-> TRUE]
                     ELSE [r |-> sub.r, c |-> [sub.c EXCEPT ![n] = sub.r],
                           nw |-> sub.nw, err |-> FALSE]
        ELSE IF nn > par THEN
            [r |-> n, c |-> [c EXCEPT ![n] = -1],
             nw |-> [nw EXCEPT ![n] = network], err |-> FALSE]
        ELSE [r |-> NoNode, c |-> c, nw |-> nw, err |-> FALSE]

\* ResidualBondPercolation.orderOfNetwork
orderOfNetwork(nw, network) ==
    IF network < 1 THEN 0
    ELSE Cardinality({ n \in DOMAIN nw : nw[n] = network })

\* ResidualBondPercolation.join
joinR(c, nw, g, c1, c2) ==
    LET c1size == -c[c1]
        c2size == -c[c2]
        ca     == [c EXCEPT ![c2] = c1]
        cb     == [ca EXCEPT ![c1] = ca[c1] - c2size]
        csize  == c1size + c2size
    IN  [c |-> cb, nw |-> nw, gcc |-> Max(g, csize), ret |-> csize, err |-> FALSE]

\* ResidualBondPercolation.occupy
occupyR(c, nw, g, n, m, network, par) ==
    LET a == rootOfR(c, nw, n, network, par)
        b == rootOfR(a.c, a.nw, m, network, par)
    IN  IF a.err THEN [c |-> a.c, nw |-> a.nw, gcc |-> g, ret |-> NoNode, err |-> TRUE]
        ELSE IF b.err THEN [c |-> b.c, nw |-> b.nw, gcc |-> g, ret |-> NoNode, err |-> TRUE]
        ELSE IF a.r = NoNode \/ b.r = NoNode
            THEN [c |-> b.c, nw |-> b.nw, gcc |-> g, ret |-> NoNode, err |-> FALSE]
        ELSE IF b.r # a.r THEN joinR(b.c, b.nw, g, a.r, b.r)
        ELSE [c |-> b.c, nw |-> b.nw, gcc |-> g, ret |-> NoNode, err |-> FALSE]

\* ------------------------------------------------------------------- frames

\* the locals of one call of percolate; oldparent and oldgcc are the locals of
\* the repercolate call that made it, and calls counts the occupy calls made
Frame(es, depth, network, N, oldparent, oldgcc) ==
    [es |-> es, depth |-> depth, network |-> network, N |-> N, M |-> Len(es),
     samplePoint |-> 0, i |-> 0, pc |-> "start", samples |-> <<>>,
     oldparent |-> oldparent, oldgcc |-> oldgcc, calls |-> 0]

Top == stack[Len(stack)]

SetTop(f) == [stack EXCEPT ![Len(stack)] = f]

\* ------------------------------------------------------------------ set-up

\* setUp that leaves _gcc at the 0 that NewmanZiff.__init__ gave it
Init_GccZero ==
    /\ driver \in {"basic", "residual"}
    /\ order \in 1 .. MaxNodes
    /\ edges \in EdgeSets(order)
    /\ \E S \in (SUBSET SampleValues) \ {{}} : smpl = SortedSeq(S)
    /\ residuals \in (IF driver = "basic" THEN {0} ELSE 0 .. MaxDepth)
    /\ components = [n \in Nodes(order) |-> -1]
    /\ networks = [n \in Nodes(order) |-> 1]
    /\ gcc = 0
    /\ parent = 0
    /\ networkIndex = 0
    /\ phis = [d \in {} |-> 0]
    /\ stack = <<>>
    /\ status = "ready"
    /\ result = <<>>

\* the state after setUp, for either experiment.  BondPercolation.setUp sizes
\* its array with a name N it never defines; N is taken to be the network's
\* order, as ResidualBondPercolation.setUp computes it.
Init ==
    /\ driver \in {"basic", "residual"}
    /\ order \in 1 .. MaxNodes
    /\ edges \in EdgeSets(order)
    /\ \E S \in (SUBSET SampleValues) \ {{}} : smpl = SortedSeq(S)
    /\ residuals \in (IF driver = "basic" THEN {0} ELSE 0 .. MaxDepth)
    /\ components = [n \in Nodes(order) |-> -1]
    /\ networks = [n \in Nodes(order) |-> 1]
    /\ gcc = 1
    /\ parent = 0
    /\ networkIndex = 0
    /\ phis = [d \in {} |-> 0]
    /\ stack = <<>>
    /\ status = "ready"
    /\ result = <<>>

\* ------------------------------------------------- BondPercolation.percolate

\* BondPercolation.do: shuffle the edges and call percolate
BDo ==
    /\ driver = "basic"
    /\ status = "ready"
    /\ \E es \in Shuffles(edges) :
          stack' = <<Frame(es, 0, 0, order, 0, 0)>>
    /\ status' = "running"
    /\ UNCHANGED <<driver, order, edges, smpl, residuals, components, networks,
                   gcc, parent, networkIndex, phis, result>>

\* the initial sample of BondPercolation.percolate
BStart ==
    /\ driver = "basic"
    /\ status = "running"
    /\ Top.pc = "start"
    /\ LET f == Top IN
       IF smpl[f.samplePoint + 1] = 0
       THEN stack' = SetTop([f EXCEPT !.samples = Append(@, sample(0, gcc)),
                                      !.samplePoint = @ + 1,
                                      !.pc = "loop"])
       ELSE stack' = SetTop([f EXCEPT !.pc = "loop"])
    /\ UNCHANGED <<driver, order, edges, smpl, residuals, components, networks,
                   gcc, parent, networkIndex, phis, status, result>>

\* one iteration of the loop of BondPercolation.percolate; reading
\* self._samples[samplePoint] past the end raises IndexError
BStep ==
    /\ driver = "basic"
    /\ status = "running"
    /\ Top.pc = "loop"
    /\ Top.i < Top.M
    /\ LET f  == Top
           e  == f.es[f.i + 1]
           o  == occupy(components, gcc, e[1], e[2])
       IN  /\ components' = o.c
           /\ gcc' = o.gcc
           /\ IF f.samplePoint >= Len(smpl)
              THEN /\ status' = "error"
                   /\ stack' = SetTop([f EXCEPT !.calls = @ + 1])
              ELSE /\ status' = status
                   /\ IF AtOrPast(f.i, f.M, smpl[f.samplePoint + 1])
                      THEN stack' = SetTop(
                             [f EXCEPT !.samples = Append(@, sample(smpl[f.samplePoint + 1], o.gcc)),
                                       !.samplePoint = @ + 1,
                                       !.calls = @ + 1,
                                       !.i = IF f.samplePoint + 1 > Len(smpl) THEN f.M ELSE f.i + 1])
                      ELSE stack' = SetTop([f EXCEPT !.calls = @ + 1, !.i = @ + 1])
    /\ UNCHANGED <<driver, order, edges, smpl, residuals, networks, parent,
                   networkIndex, phis, result>>

\* BondPercolation.percolate returns its samples
BReturn ==
    /\ driver = "basic"
    /\ status = "running"
    /\ Top.pc = "loop"
    /\ Top.i >= Top.M
    /\ result' = Top.samples
    /\ status' = "done"
    /\ UNCHANGED <<driver, order, edges, smpl, residuals, components, networks,
                   gcc, parent, networkIndex, phis, stack>>

NextBasic == BDo \/ BStart \/ BStep \/ BReturn

\* ----------------------------------------- ResidualBondPercolation.percolate

\* the entry of percolate taking the network index before incrementing it
Enter_ReusesIndex(es, depth, nw, par, index, oldparent, oldgcc) ==
    Frame(es, depth, index, order - orderOfNetwork(nw, par), oldparent, oldgcc)

\* the entry of ResidualBondPercolation.percolate: N, M, the new network index
\* and the locals; oldparent and oldgcc belong to the calling repercolate
Enter(es, depth, nw, par, index, oldparent, oldgcc) ==
    Frame(es, depth, index + 1, order - orderOfNetwork(nw, par), oldparent, oldgcc)

\* ResidualBondPercolation.do: shuffle the edges and call percolate(es, 0)
RDo ==
    /\ driver = "residual"
    /\ status = "ready"
    /\ \E es \in Shuffles(edges) :
          stack' = <<Enter(es, 0, networks, parent, networkIndex, parent, gcc)>>
    /\ networkIndex' = networkIndex + 1
    /\ status' = "running"
    /\ UNCHANGED <<driver, order, edges, smpl, residuals, components, networks,
                   gcc, parent, phis, result>>

\* sample that recurses while depth <= residuals, one level too deep
TakeSample_DepthOffByOne(f, p, nexti, g, nw) ==
    LET res == [depth |-> f.depth, N |-> f.N, M |-> f.M, p |-> p, gcc |-> g,
                phis |-> phis]
        f2  == [f EXCEPT !.samples = Append(@, res)]
    IN  IF f.depth <= residuals
        THEN /\ phis' = [d \in (DOMAIN phis) \cup {f.depth} |->
                            IF d = f.depth THEN p ELSE phis[d]]
             /\ parent' = f.network
             /\ gcc' = 1
             /\ networkIndex' = networkIndex + 1
             /\ stack' = Append(SetTop(f2),
                                Enter(Suffix(f.es, nexti), f.depth + 1, nw,
                                      f.network, networkIndex, parent, g))
        ELSE /\ phis' = phis
             /\ parent' = parent
             /\ gcc' = g
             /\ networkIndex' = networkIndex
             /\ stack' = SetTop(f2)

\* ResidualBondPercolation.sample, called by the frame f (its locals already
\* advanced past the call) with the GCC g and the tags nw: the sample record,
\* then repercolate and the entry of the recursive percolate when depth allows
TakeSample(f, p, nexti, g, nw) ==
    LET res == [depth |-> f.depth, N |-> f.N, M |-> f.M, p |-> p, gcc |-> g,
                phis |-> phis]
        f2  == [f EXCEPT !.samples = Append(@, res)]
    IN  IF f.depth < residuals
        THEN /\ phis' = [d \in (DOMAIN phis) \cup {f.depth} |->
                            IF d = f.depth THEN p ELSE phis[d]]
             /\ parent' = f.network
             /\ gcc' = 1
             /\ networkIndex' = networkIndex + 1
             /\ stack' = Append(SetTop(f2),
                                Enter(Suffix(f.es, nexti), f.depth + 1, nw,
                                      f.network, networkIndex, parent, g))
        ELSE /\ phis' = phis
             /\ parent' = parent
             /\ gcc' = g
             /\ networkIndex' = networkIndex
             /\ stack' = SetTop(f2)

\* the initial sample of ResidualBondPercolation.percolate
RStart ==
    /\ driver = "residual"
    /\ status = "running"
    /\ Top.pc = "start"
    /\ LET f == Top IN
       IF smpl[f.samplePoint + 1] = 0
       THEN TakeSample([f EXCEPT !.samplePoint = @ + 1, !.pc = "loop"],
                       smpl[f.samplePoint + 1], 0, gcc, networks)
       ELSE /\ stack' = SetTop([f EXCEPT !.pc = "loop"])
            /\ UNCHANGED <<phis, parent, gcc, networkIndex>>
    /\ UNCHANGED <<driver, order, edges, smpl, residuals, components, networks,
                   status, result>>

\* one iteration of the loop of ResidualBondPercolation.percolate
RStep ==
    /\ driver = "residual"
    /\ status = "running"
    /\ Top.pc = "loop"
    /\ Top.i < Top.M
    /\ Top.samplePoint < Len(smpl)
    /\ LET f  == Top
           e  == f.es[f.i + 1]
           o  == occupyR(components, networks, gcc, e[1], e[2], f.network, parent)
           p  == smpl[f.samplePoint + 1]
       IN  /\ components' = o.c
           /\ networks' = o.nw
           /\ IF o.err
              THEN /\ status' = "error"
                   /\ stack' = SetTop([f EXCEPT !.calls = @ + 1])
                   /\ gcc' = o.gcc
                   /\ UNCHANGED <<phis, parent, networkIndex>>
              ELSE /\ status' = status
                   /\ IF AtOrPast(f.i, f.M, p)
                      THEN TakeSample([f EXCEPT !.samplePoint = @ + 1,
                                                !.calls = @ + 1,
                                                !.i = @ + 1],
                                      p, f.i + 1, o.gcc, o.nw)
                      ELSE /\ stack' = SetTop([f EXCEPT !.calls = @ + 1, !.i = @ + 1])
                           /\ gcc' = o.gcc
                           /\ UNCHANGED <<phis, parent, networkIndex>>
    /\ UNCHANGED <<driver, order, edges, smpl, residuals, result>>

\* the return through a repercolate that does not put _gcc back
RReturn_GccNotRestored ==
    /\ driver = "residual"
    /\ status = "running"
    /\ Top.pc = "loop"
    /\ Top.i >= Top.M \/ Top.samplePoint >= Len(smpl)
    /\ IF Len(stack) = 1
       THEN /\ result' = Top.samples
            /\ status' = "done"
            /\ UNCHANGED <<stack, phis, gcc, parent>>
       ELSE LET child  == Top
                caller == stack[Len(stack) - 1]
            IN  /\ stack' = [SubSeq(stack, 1, Len(stack) - 1)
                               EXCEPT ![Len(stack) - 1] =
                                   [caller EXCEPT !.samples = @ \o child.samples]]
                /\ phis' = [d \in (DOMAIN phis) \ {caller.depth} |-> phis[d]]
                /\ gcc' = gcc
                /\ parent' = child.oldparent
                /\ UNCHANGED <<status, result>>
    /\ UNCHANGED <<driver, order, edges, smpl, residuals, components, networks,
                   networkIndex>>

\* ResidualBondPercolation.percolate returns: to do at the top level, else to
\* repercolate (which restores _phis, _gcc and _parent) and on to sample,
\* which extends the caller's samples
RReturn ==
    /\ driver = "residual"
    /\ status = "running"
    /\ Top.pc = "loop"
    /\ Top.i >= Top.M \/ Top.samplePoint >= Len(smpl)
    /\ IF Len(stack) = 1
       THEN /\ result' = Top.samples
            /\ status' = "done"
            /\ UNCHANGED <<stack, phis, gcc, parent>>
       ELSE LET child  == Top
                caller == stack[Len(stack) - 1]
            IN  /\ stack' = [SubSeq(stack, 1, Len(stack) - 1)
                               EXCEPT ![Len(stack) - 1] =
                                   [caller EXCEPT !.samples = @ \o child.samples]]
                /\ phis' = [d \in (DOMAIN phis) \ {caller.depth} |-> phis[d]]
                /\ gcc' = child.oldgcc
                /\ parent' = child.oldparent
                /\ UNCHANGED <<status, result>>
    /\ UNCHANGED <<driver, order, edges, smpl, residuals, components, networks,
                   networkIndex>>

NextResidual == RDo \/ RStart \/ RStep \/ RReturn

Next == NextBasic \/ NextResidual

\* each experiment on its own
InitBasic == Init /\ driver = "basic"

InitResidual == Init /\ driver = "residual"

SpecBasic == InitBasic /\ [][NextBasic]_vars

SpecResidual == InitResidual /\ [][NextResidual]_vars

Spec == Init /\ [][Next]_vars

\* the largest network of the runs checked for termination
FairNodes == 3

InitResidualFair == InitResidual /\ order <= FairNodes

\* a residual run executes its next statement whenever it has one
SpecResidualFair ==
    InitResidualFair /\ [][NextResidual]_vars /\ WF_vars(NextResidual)
\* ------------------------------------------------------------ graph theory

\* the nodes reachable from the set S along the edges of the sequence es
RECURSIVE Closure(_, _)
Closure(S, es) ==
    LET T == S \cup { v \in Nodes(order) :
                        \E k \in 1 .. Len(es) :
                            \/ es[k][1] \in S /\ es[k][2] = v
                            \/ es[k][2] \in S /\ es[k][1] = v }
    IN  IF T = S THEN S ELSE Closure(T, es)

\* the node count of the largest connected component of (Nodes(order), es)
LargestComponent(es) ==
    LET sizes == { Cardinality(Closure({n}, es)) : n \in Nodes(order) }
    IN  CHOOSE s \in sizes : \A t \in sizes : t <= s

Finished == status \in {"done", "error"}

\* the path 0-1-2-3 percolated in the order (0,1), (1,2), (2,3) with the
\* sample probabilities 0.0, 0.34, 0.67, 1.0
PathScenario ==
    /\ order = 4
    /\ stack # <<>>
    /\ stack[1].es = << <<0, 1>>, <<1, 2>>, <<2, 3>> >>
    /\ smpl = <<0, 34, 67, 100>>

\* ------------------------------------------------------------------ claims

\* C1: for a network with at least one edge, BondPercolation.percolate
\* returns one record per configured sample probability, in ascending order,
\* each holding that probability and a GCC size.
C1_OneRecordPerSample ==
    (driver = "basic" /\ edges # {} /\ Finished) =>
        /\ status = "done"
        /\ Len(result) = Len(smpl)
        /\ \A k \in 1 .. Len(result) :
              result[k].p = smpl[k] /\ result[k].gcc \in 1 .. order

\* C2: on the path scenario the basic driver emits exactly (0.0, 1),
\* (0.34, 2), (0.67, 3), (1.0, 4), in that order.
C2_BasicScenario ==
    (driver = "basic" /\ PathScenario /\ Finished) =>
        /\ status = "done"
        /\ result = << sample(0, 1), sample(34, 2), sample(67, 3), sample(100, 4) >>

\* C3 as stated: on the path scenario with maximum depth 1, the depth-1 pass
\* spawned at the top-level sample p=0.67 is entered after exactly edges 0 and
\* 1, receives [(2,3)], and its sample at probability 1.0 reports GCC=2.
C3_ResidualScenario_Stated ==
    (driver = "residual" /\ PathScenario /\ residuals = 1 /\ Len(stack) = 2
        /\ phis[0] = 67) =>
        /\ stack[1].calls = 2
        /\ stack[2].es = << <<2, 3>> >>
        /\ (stack[2].i >= stack[2].M =>
               \E k \in 1 .. Len(stack[2].samples) :
                   stack[2].samples[k].p = 100 /\ stack[2].samples[k].gcc = 2)

\* C3 amended: on the path scenario with maximum depth 1, the depth-1 pass
\* entered after exactly edges 0 and 1 is the one spawned at the top-level
\* sample p=0.34 (the top-level GCC is then 3); it receives [(2,3)] and every
\* sample it emits reports GCC=1, because slot 2 belongs to the caller and the
\* edge is skipped.  The pass spawned at p=0.67 is entered after all three
\* edges and receives the empty list.
C3_ResidualScenario ==
    (driver = "residual" /\ PathScenario /\ residuals = 1 /\ Len(stack) = 2) =>
        /\ phis[0] = 34 =>
              /\ stack[1].calls = 2
              /\ stack[2].es = << <<2, 3>> >>
              /\ stack[2].oldgcc = 3
              /\ gcc = 1
              /\ \A k \in 1 .. Len(stack[2].samples) : stack[2].samples[k].gcc = 1
              /\ stack[2].calls = 1 => Len(stack[2].samples) = 2
        /\ phis[0] = 67 =>
              /\ stack[1].calls = 3
              /\ stack[2].es = <<>>
        /\ stack[2].es = << <<2, 3>> >> => phis[0] = 34

C3_Witness ==
    /\ driver = "residual" /\ PathScenario /\ residuals = 1 /\ Len(stack) = 2
    /\ phis[0] = 34
    /\ stack[2].calls = 1
    /\ Len(stack[2].samples) = 2

\* C4: in the basic driver, after occupying any prefix of the permutation the
\* GCC counter is the node count of the largest connected component of the
\* graph with exactly those edges, and every sample reports that size.
C4_GccIsLargestComponent ==
    /\ [](driver = "basic" /\ stack # <<>> =>
            gcc = LargestComponent(SubSeq(Top.es, 1, Top.calls)))
    /\ [][(driver = "basic" /\ stack # <<>> /\ stack' # <<>>
            /\ Len(Top'.samples) > Len(Top.samples)) =>
               Top'.samples[Len(Top'.samples)].gcc =
                   LargestComponent(SubSeq(Top'.es, 1, Top'.calls))]_vars

C4_Witness ==
    /\ driver = "basic" /\ stack # <<>>
    /\ Top.calls = 3
    /\ gcc = 3
    /\ Top.samples # <<>>
    /\ Top.samples[Len(Top.samples)].gcc = 3

\* the GCC counter of the pass at stack position k: _gcc while it runs, the
\* oldgcc its repercolate holds while a sub-pass runs
GccOf(k) == IF k = Len(stack) THEN gcc ELSE stack[k + 1].oldgcc

\* the samples a pass emitted itself, without those of its sub-passes
OwnSamples(f) ==
    IF driver = "basic" THEN f.samples
    ELSE SelectSeq(f.samples, LAMBDA x : x.depth = f.depth)

\* C5: in either driver the samples one pass emits itself come at increasing
\* probabilities with non-decreasing GCC, and the GCC counter a pass sees
\* never decreases from one step to the next, a sub-pass call included.
C5_GccNonDecreasing ==
    /\ [](\A k \in 1 .. Len(stack) :
            LET own == OwnSamples(stack[k])
            IN  \A a, b \in 1 .. Len(own) :
                    a < b => own[a].p < own[b].p /\ own[a].gcc <= own[b].gcc)
    /\ [][\A k \in 1 .. Len(stack) :
            (k <= Len(stack') /\ stack'[k].network = stack[k].network) =>
                GccOf(k)' >= GccOf(k)]_vars

C5_Witness ==
    /\ driver = "residual"
    /\ Len(stack) = 1
    /\ \E a, b, c \in 1 .. Len(Top.samples) :
          /\ a < b /\ b < c
          /\ Top.samples[a].depth = 0
          /\ Top.samples[b].depth = 1
          /\ Top.samples[c].depth = 0
          /\ Top.samples[c].gcc > Top.samples[a].gcc
          /\ Top.samples[a].gcc > 1

\* C6: for a connected network, once the top-level pass has occupied all M
\* edges its GCC counter equals the node count N, and a sample it takes at
\* probability 1.0 reports GCC = N.
C6_ConnectedFullOccupation ==
    (stack # <<>> /\ Closure({0}, stack[1].es) = Nodes(order)) =>
        /\ stack[1].calls = stack[1].M => GccOf(1) = order
        /\ LET own == OwnSamples(stack[1])
           IN  \A k \in 1 .. Len(own) : own[k].p = 100 => own[k].gcc = order

C6_Witness ==
    /\ driver = "basic"
    /\ order = 4
    /\ stack # <<>>
    /\ Closure({0}, stack[1].es) = Nodes(order)
    /\ stack[1].calls = 3
    /\ status = "done"
    /\ \E k \in 1 .. Len(result) : result[k].p = 100 /\ result[k].gcc = 4

\* C7: for a network with no edges a run completes without error; it emits
\* nothing unless 0.0 is a configured sample probability, and then only
\* probability-0 samples with GCC = 1: one in the basic driver, one per depth
\* 0..D in the residual driver.
C7_NoEdges ==
    edges = {} =>
        /\ status # "error"
        /\ status = "done" \/ ENABLED Next
        /\ \A k \in 1 .. Len(stack) : \A j \in 1 .. Len(stack[k].samples) :
              /\ smpl[1] = 0
              /\ stack[k].samples[j].p = 0
              /\ stack[k].samples[j].gcc = 1
        /\ status = "done" =>
              /\ result = stack[1].samples
              /\ Len(result) = (IF smpl[1] # 0 THEN 0 ELSE residuals + 1)
              /\ driver = "residual" =>
                    \A j \in 1 .. Len(result) : result[j].depth = j - 1

C7_Witness ==
    /\ edges = {}
    /\ driver = "residual"
    /\ residuals = 2
    /\ status = "done"
    /\ Len(result) = 3
    /\ Len(smpl) > 1

\* C8: whenever a pass of the residual driver has handed an edge list to a
\* sub-pass, the edges the pass has occupied are exactly the first nexti of
\* its own list and the sub-pass holds exactly the rest, so the two pieces
\* concatenated are the pass's list.
C8_PrefixSuffixSplit ==
    \A k \in 2 .. Len(stack) :
        LET caller == stack[k - 1]
            child  == stack[k]
        IN  /\ caller.calls = caller.i
            /\ child.es = [j \in 1 .. (caller.M - caller.calls) |->
                              caller.es[caller.calls + j]]
            /\ Len(child.es) + caller.calls = caller.M
            /\ SubSeq(caller.es, 1, caller.calls) \o child.es = caller.es

C8_Witness ==
    /\ Len(stack) = 3
    /\ stack[1].calls = 0
    /\ stack[2].calls >= 1
    /\ Len(stack[3].es) >= 1
    /\ Len(stack[3].es) < Len(stack[2].es)

\* what rootOf says of every slot for the generation g under the boundary
\* par: the slots in its component (none when it is inaccessible) and the
\* component's size
ComponentView(c, nw, g, par) ==
    LET res(n)  == rootOfR(c, nw, n, g, par)
        root(n) == res(n).r
    IN  [n \in Nodes(order) |->
            IF root(n) = NoNode THEN <<{}, 0>>
            ELSE <<{ m \in Nodes(order) : root(m) = root(n) },
                   -(res(n).c[root(n)])>>]

\* the component set of the pass at stack position k, which is waiting for
\* the sub-pass at position k + 1
ViewOf(k) ==
    ComponentView(components, networks, stack[k].network, stack[k + 1].oldparent)

\* the slots in a component of size two or more of a pass that is waiting
OwnedByWaiting(n) ==
    \E k \in 1 .. (Len(stack) - 1) :
        networks[n] = stack[k].network /\ components[n] # -1

\* C9: while a sub-pass and its descendants run, and when it returns, the
\* waiting pass's component set (which slots rootOf puts together, and each
\* component's size) stays what it was at the call; and no step writes the
\* record or the tag of a slot in a component of size >= 2 of a waiting pass.
C9_Isolation ==
    /\ [][\A k \in 1 .. (Len(stack) - 1) :
            /\ (k + 1 <= Len(stack') /\ stack'[k + 1].network = stack[k + 1].network)
                  => ViewOf(k)' = ViewOf(k)
            /\ (k = Len(stack'))
                  => ComponentView(components', networks', stack'[k].network, parent')
                         = ViewOf(k)]_vars
    /\ [][\A n \in Nodes(order) :
            OwnedByWaiting(n) =>
                components'[n] = components[n] /\ networks'[n] = networks[n]]_vars

C9_Witness ==
    /\ driver = "residual"
    /\ Len(stack) = 1
    /\ \E a, b \in 1 .. Len(Top.samples) :
          /\ a < b
          /\ Top.samples[a].depth = 0
          /\ Top.samples[a].gcc >= 2
          /\ Top.samples[b].depth = 1
          /\ Top.samples[b].gcc >= 2
          /\ Top.samples[b].phis[0] = Top.samples[a].p
    /\ \E n \in Nodes(order) : networks[n] = Top.network /\ components[n] >= 0

\* C10: in every state of the basic tracker, rootOf called twice in a row on
\* a slot returns the same root both times and the second call changes no
\* entry of the components array.
C10_RootOfIdempotent ==
    driver = "basic" =>
        \A n \in Nodes(order) :
            LET first  == rootOf(components, n)
                second == rootOf(first.c, n)
            IN  second.r = first.r /\ second.c = first.c

C10_Witness ==
    /\ driver = "basic"
    /\ \E n \in Nodes(order) :
          /\ rootOf(components, n).c # components
          /\ components[components[n]] >= 0
          /\ components[components[components[n]]] >= 0

\* C11: when occupying one edge index takes (i+1)/M to or past several
\* pending sample probabilities, each of them gets its own sample at that
\* index: after the edge, no probability that (i+1)/M has reached is pending.
C11_TiesEachEmit ==
    \A k \in 1 .. Len(stack) :
        LET f == stack[k]
        IN  (f.pc = "loop" /\ f.i >= 1 /\ f.calls = f.i) =>
                \A j \in 1 .. Len(smpl) :
                    AtOrPast(f.i - 1, f.M, smpl[j]) => j <= f.samplePoint

\* C12: the basic driver's percolate returns normally for every permutation
\* and non-empty sample set: it never reads the sample list at an index >=
\* its length.
C12_NoReadPastEnd ==
    driver = "basic" => status # "error"

\* the ids of the passes waiting on the call stack: the running pass's
\* proper ancestors
LiveAncestors == { stack[k].network : k \in 1 .. (Len(stack) - 1) }

\* the running pass is about to occupy its next edge
AboutToOccupy ==
    /\ driver = "residual"
    /\ status = "running"
    /\ Top.pc = "loop"
    /\ Top.i < Top.M
    /\ Top.samplePoint < Len(smpl)

\* what rootOf returns, and leaves behind, for the two endpoints of the next
\* edge, in the order occupy resolves them
FirstEndpoint ==
    rootOfR(components, networks, Top.es[Top.i + 1][1], Top.network, parent)

SecondEndpoint ==
    rootOfR(FirstEndpoint.c, FirstEndpoint.nw, Top.es[Top.i + 1][2],
            Top.network, parent)

\* C13: whenever rootOf returns None for a slot, the slot's tag is the id of
\* a pass still waiting on the call stack; a slot tagged by a pass that has
\* returned is never reported inaccessible.
C13_InaccessibleIsLiveAncestor ==
    AboutToOccupy =>
        /\ FirstEndpoint.r = NoNode =>
              networks[Top.es[Top.i + 1][1]] \in LiveAncestors
        /\ SecondEndpoint.r = NoNode =>
              FirstEndpoint.nw[Top.es[Top.i + 1][2]] \in LiveAncestors

\* the call of occupy the running pass is about to make
NextOccupy ==
    occupyR(components, networks, gcc, Top.es[Top.i + 1][1], Top.es[Top.i + 1][2],
            Top.network, parent)

InaccessibleEndpoint ==
    /\ AboutToOccupy
    /\ FirstEndpoint.r = NoNode \/ SecondEndpoint.r = NoNode

\* C14 as stated: occupy with an inaccessible endpoint returns nothing and
\* leaves every component record, every generation tag and the GCC counter
\* unchanged.
C14_SkipIsNoOp_Stated ==
    InaccessibleEndpoint =>
        /\ NextOccupy.ret = NoNode
        /\ NextOccupy.gcc = gcc
        /\ NextOccupy.c = components
        /\ NextOccupy.nw = networks

\* C14 amended: occupy with an inaccessible endpoint returns nothing, merges
\* nothing and leaves the GCC counter and the generation's component set (what
\* rootOf reports for every slot) unchanged, whichever endpoint is the
\* inaccessible one; but rootOf still resolves the other endpoint, so that
\* slot may be tagged with the generation and, if it came from another
\* available network, have its record reset to -1.  Only the two endpoints'
\* tags can change, and only to the generation's id.
C14_SkipKeepsComponents ==
    InaccessibleEndpoint =>
        /\ ~NextOccupy.err
        /\ NextOccupy.ret = NoNode
        /\ NextOccupy.gcc = gcc
        /\ ComponentView(NextOccupy.c, NextOccupy.nw, Top.network, parent)
              = ComponentView(components, networks, Top.network, parent)
        /\ \A n \in Nodes(order) :
              NextOccupy.nw[n] # networks[n] =>
                  /\ n \in {Top.es[Top.i + 1][1], Top.es[Top.i + 1][2]}
                  /\ NextOccupy.nw[n] = Top.network
                  /\ NextOccupy.c[n] = -1

C14_Witness ==
    /\ AboutToOccupy
    /\ FirstEndpoint.r = NoNode
    /\ SecondEndpoint.r # NoNode
    /\ NextOccupy.c # components
    /\ NextOccupy.nw # networks

\* the sample at which the pass waiting at position k made its recursive call:
\* the last one it has recorded
CallSample(k) == stack[k].samples[Len(stack[k].samples)]

\* the parent boundary under which the pass at position k runs
BoundaryOf(k) == IF k = 1 THEN 0 ELSE stack[k - 1].network

\* C15: a recursive sub-pass starts with the GCC counter 1 and the parent
\* boundary set to the calling generation's id; when it returns, however many
\* sub-passes it nested, the GCC counter, the parent boundary and the
\* probability context are the ones the caller had at the call: the GCC and
\* the context its calling sample recorded, and the boundary it runs under.
C15_SubPassSavesAndRestores ==
    [][ /\ (stack # <<>> /\ Len(stack') = Len(stack) + 1) =>
              /\ gcc' = 1
              /\ parent' = Top.network
              /\ stack'[Len(stack)].samples # <<>>
              /\ stack'[Len(stack)].samples[Len(stack'[Len(stack)].samples)].phis = phis
              /\ stack'[Len(stack')].depth = Top.depth + 1
        /\ (Len(stack') = Len(stack) - 1) =>
              /\ gcc' = CallSample(Len(stack) - 1).gcc
              /\ phis' = CallSample(Len(stack) - 1).phis
              /\ parent' = BoundaryOf(Len(stack) - 1)
      ]_vars

\* a top-level pass running again with a GCC above 1 after a sub-pass that
\* itself nested a sub-pass has returned to it
C15_Witness ==
    /\ driver = "residual"
    /\ status = "running"
    /\ Len(stack) = 1
    /\ gcc >= 2
    /\ \E j \in 1 .. Len(Top.samples) : Top.samples[j].depth = 2

\* the slot reached from n by following at most k parent links until a
\* negative record is found, or NoNode when k links do not reach one
RECURSIVE FollowLinks(_, _, _)
FollowLinks(c, n, k) ==
    IF c[n] < 0 THEN n
    ELSE IF k = 0 THEN NoNode
    ELSE FollowLinks(c, c[n], k - 1)

Roots(c) == { n \in DOMAIN c : c[n] < 0 }

RECURSIVE SumOfSizes(_, _)
SumOfSizes(c, S) ==
    IF S = {} THEN 0
    ELSE LET n == CHOOSE x \in S : TRUE
         IN  -c[n] + SumOfSizes(c, S \ {n})

\* C16: in the basic tracker, after any occupy calls on the initial singletons,
\* following parent links from any slot reaches a root within order - 1 links
\* (so the links are acyclic), every root's stored size is the number of slots
\* whose rootOf is that root, and the sizes of all roots sum to the order.
C16_BasicTrackerInvariant ==
    driver = "basic" =>
        /\ \A n \in Nodes(order) : FollowLinks(components, n, order - 1) # NoNode
        /\ \A r \in Roots(components) :
              -components[r] =
                  Cardinality({ n \in Nodes(order) : rootOf(components, n).r = r })
        /\ SumOfSizes(components, Roots(components)) = order

\* at least two occupy calls made and a slot two links away from its root
C16_Witness ==
    /\ driver = "basic"
    /\ stack # <<>>
    /\ Top.calls >= 2
    /\ \E n \in Nodes(order) :
          /\ components[n] >= 0
          /\ components[components[n]] >= 0

\* the slots tagged with the generation g
TaggedWith(g) == { n \in Nodes(order) : networks[n] = g }

\* C17: at every point of a residual run, for every generation whose pass is
\* on the call stack, the stored sizes of the root slots tagged with that
\* generation sum to the number of slots tagged with it.
C17_SizesSumToOwnedSlots ==
    driver = "residual" =>
        \A k \in 1 .. Len(stack) :
            SumOfSizes(components, TaggedWith(stack[k].network) \cap Roots(components))
                = Cardinality(TaggedWith(stack[k].network))

\* a waiting pass and the running pass each hold a component of two or more
C17_Witness ==
    /\ driver = "residual"
    /\ Len(stack) >= 2
    /\ \E r \in TaggedWith(Top.network) : components[r] <= -2
    /\ \E k \in 1 .. (Len(stack) - 1) :
          \E r \in TaggedWith(stack[k].network) : components[r] <= -2

\* every sample recorded so far in a residual run
EmittedSamples ==
    UNION { { stack[k].samples[j] : j \in 1 .. Len(stack[k].samples) } :
            k \in 1 .. Len(stack) } \cup
    { result[j] : j \in 1 .. Len(result) }

\* C18: every sample of the residual driver, at any depth, reports a GCC no
\* larger than the order N reported in the same sample, N being the number of
\* slots minus those tagged with the parent boundary at pass entry.
C18_GccAtMostOrder ==
    driver = "residual" => \A s \in EmittedSamples : s.gcc <= s.N

\* the generation ids of the passes on the call stack
LiveIds == { stack[k].network : k \in 1 .. Len(stack) }

\* C19 (state part): the ids of the passes on the call stack strictly increase
\* with depth and none is above the counter; the parent boundary is the id of
\* the running pass's direct caller, 0 for the top-level pass; and every id
\* handed out above the parent boundary, the running pass's own excepted,
\* belongs to a pass no longer on the stack.
GenerationOrder ==
    (driver = "residual" /\ stack # <<>>) =>
        /\ \A k \in 1 .. (Len(stack) - 1) : stack[k].network < stack[k + 1].network
        /\ \A k \in 1 .. Len(stack) : stack[k].network \in 1 .. networkIndex
        /\ parent = BoundaryOf(Len(stack))
        /\ \A g \in (parent + 1) .. networkIndex :
              g # Top.network => g \notin LiveIds

\* C19 (step part): the counter never decreases, and it moves exactly when a
\* pass is entered, by one, the new value being the entered pass's id.
GenerationAssignedOnce ==
    /\ networkIndex' >= networkIndex
    /\ (Len(stack') = Len(stack) + 1) =>
          /\ networkIndex' = networkIndex + 1
          /\ stack'[Len(stack')].network = networkIndex'
    /\ (Len(stack') # Len(stack) + 1) => networkIndex' = networkIndex
    /\ \A k \in 1 .. Len(stack) :
          k <= Len(stack') => stack'[k].network = stack[k].network

\* C19: generation ids are assigned once per pass entry from a strictly
\* increasing counter, so the live ids increase with depth, the parent
\* boundary is the direct caller's id, and ids above it other than the
\* running pass's own belong to passes that have returned.
C19_GenerationIds ==
    []GenerationOrder /\ [][GenerationAssignedOnce]_vars

\* a depth-2 pass running while a slot still carries the id of a sibling that
\* has returned
C19_Witness ==
    /\ driver = "residual"
    /\ status = "running"
    /\ Len(stack) = 3
    /\ \E n \in Nodes(order) :
          /\ networks[n] > parent
          /\ networks[n] # Top.network
          /\ networks[n] <= networkIndex

\* no pass on the stack is deeper than the configured maximum, and every
\* recorded sample carries a depth in 0 .. residuals
DepthBounded ==
    driver = "residual" =>
        /\ \A k \in 1 .. Len(stack) : stack[k].depth \in 0 .. residuals
        /\ \A s \in EmittedSamples : s.depth \in 0 .. residuals

\* C20: for every edge list, non-empty sample set and maximum depth within the
\* bounds, a residual run terminates, no pass is entered at a depth above the
\* maximum, and every sample carries a depth in 0 .. maximum.
C20_TerminatesWithinDepth ==
    []DepthBounded /\ <>(status = "done")

\* a finished run of maximum depth 2 that recorded samples at depths 0 and 2
C20_Witness ==
    /\ driver = "residual"
    /\ status = "done"
    /\ residuals = MaxDepth
    /\ \E j \in 1 .. Len(result) : result[j].depth = MaxDepth
    /\ \E j \in 1 .. Len(result) : result[j].depth = 0

====
